---- MODULE Spec2Model ----
(***************************************************************************)
(* Two-deme gene-drive recurrence (src/mousemod.py, step_gene_drive), the  *)
(* trajectory runner and the bisection for the critical migration rate     *)
(* (src/simulation.py, run_gene_drive_model and find_critical_migration).  *)
(*                                                                         *)
(* Numbers.  The program computes on Python floats.  The model computes    *)
(* on exact rationals <<n, d>> in lowest terms with d > 0: every grid      *)
(* value used below is a small rational, and on dyadic values whose        *)
(* results stay dyadic the float operations are exact as well.  Python     *)
(* raises ZeroDivisionError on a float division by zero; the model keeps   *)
(* that outcome (field `raised`, pc = "raised").                           *)
(***************************************************************************)
EXTENDS Integers, Sequences, FiniteSets, TLC

VARIABLES
    s, c, h, m, alpha,          \* the five model parameters of a call
    initial_q1, initial_q2,     \* the initial frequencies of a call
    max_generations,            \* run_gene_drive_model: iteration budget
    convergence_threshold,      \* run_gene_drive_model: convergence threshold
    q1, q2,                     \* the current frequencies
    q1_history, q2_history,     \* run_gene_drive_model: the two histories
    generation,                 \* run_gene_drive_model: index of the next iteration
    applied,                    \* number of recurrence applications completed
    q1_post, q2_post,           \* step_gene_drive: post-migration frequencies
    w1, w2,                     \* step_gene_drive: mean fitness of each deme
    q1_next, q2_next,           \* step_gene_drive: its result
    precision,                  \* find_critical_migration: precision
    m_low, m_high,              \* find_critical_migration: the bracket
    iterations,                 \* find_critical_migration: loop iterations done
    result,                     \* find_critical_migration: the value returned
    GENERATION,                 \* mousemod.py: generations committed
    hist_q1, hist_q2,           \* mousemod.py: the plotted histories
    auto_run,                   \* mousemod.py: the Run/Pause flag
    sliders,                    \* mousemod.py: the values of the six sliders
    pc                          \* position: "call", "loop", "returned", "raised",
                                \* and in the main loop of mousemod.py
                                \* "frame", "events", "update"

vars == <<s, c, h, m, alpha, initial_q1, initial_q2, max_generations,
          convergence_threshold, q1, q2, q1_history, q2_history, generation,
          applied, q1_post, q2_post, w1, w2, q1_next, q2_next, precision,
          m_low, m_high, iterations, result, GENERATION, hist_q1, hist_q2,
          auto_run, sliders, pc>>

\* the state of the main loop of mousemod.py
ui == <<GENERATION, hist_q1, hist_q2, auto_run, sliders>>

----------------------------------------------------------------------------
(* Exact rational arithmetic: the operators +, -, *, /, <, abs, ** 2 of    *)
(* the source.                                                             *)

Abs(x) == IF x < 0 THEN -x ELSE x

RECURSIVE GCD(_, _)
GCD(a, b) == IF b = 0 THEN a ELSE GCD(b, a % b)

\* n/d in lowest terms with a positive denominator (d # 0)
Rat(n, d) ==
    LET g  == GCD(Abs(n), Abs(d))
        sg == IF d < 0 THEN -1 ELSE 1
    IN  <<(sg * n) \div g, (sg * d) \div g>>

Zero == <<0, 1>>
One  == <<1, 1>>
Two  == <<2, 1>>
Half == <<1, 2>>

Add(a, b) ==
    LET g == GCD(a[2], b[2])
        l == (a[2] \div g) * b[2]
    IN  Rat(a[1] * (l \div a[2]) + b[1] * (l \div b[2]), l)

Neg(a) == <<-a[1], a[2]>>

Sub(a, b) == Add(a, Neg(b))

Mul(a, b) ==
    LET g1 == GCD(Abs(a[1]), b[2])
        g2 == GCD(Abs(b[1]), a[2])
    IN  <<(a[1] \div g1) * (b[1] \div g2), (a[2] \div g2) * (b[2] \div g1)>>

\* a / b for b # 0 (the callers test b = Zero first: ZeroDivisionError)
Div(a, b) ==
    Mul(a, IF b[1] > 0 THEN <<b[2], b[1]>> ELSE <<-b[2], -b[1]>>)

Sq(a) == Mul(a, a)

Less(a, b) == Sub(a, b)[1] < 0

Leq(a, b) == Sub(a, b)[1] <= 0

AbsR(a) == <<Abs(a[1]), a[2]>>

----------------------------------------------------------------------------
(* step_gene_drive (src/mousemod.py): one generation, migration then       *)
(* selection.  Its expressions, in the order the function evaluates them.  *)

\* 1 - alpha*m + m and 1 - m + alpha*m: the two migration denominators
den_1(p_m, p_alpha) == Add(Sub(One, Mul(p_alpha, p_m)), p_m)

den_2(p_m, p_alpha) == Add(Sub(One, p_m), Mul(p_alpha, p_m))

\* post_1 divided by the other deme's denominator (a copy-paste slip)
post_1_other_den(p_q1, p_q2, p_m, p_alpha) ==
    Div(Add(Mul(Sub(One, Mul(p_alpha, p_m)), p_q1), Mul(p_m, p_q2)),
        den_2(p_m, p_alpha))

\* q1_post = ((1 - alpha*m) * q1 + m * q2) / (1 - alpha*m + m)
post_1(p_q1, p_q2, p_m, p_alpha) ==
    Div(Add(Mul(Sub(One, Mul(p_alpha, p_m)), p_q1), Mul(p_m, p_q2)),
        den_1(p_m, p_alpha))

\* q2_post = ((1 - m) * q2 + alpha*m * q1) / (1 - m + alpha*m)
post_2(p_q1, p_q2, p_m, p_alpha) ==
    Div(Add(Mul(Sub(One, p_m), p_q2), Mul(Mul(p_alpha, p_m), p_q1)),
        den_2(p_m, p_alpha))

\* s_n = 0.5 * (1 - c) * (1 - h * s)
sel_n(p_s, p_c, p_h) == Mul(Mul(Half, Sub(One, p_c)), Sub(One, Mul(p_h, p_s)))

\* s_c = c * (1 - s)
sel_c(p_s, p_c) == Mul(p_c, Sub(One, p_s))

\* mean_fitness with the heterozygote weight of the numerator, s_n + s_c
mean_fitness_het(q, p_s, s_n, s_c) ==
    Add(Add(Mul(Sq(q), Sub(One, p_s)),
            Mul(Mul(Mul(Two, q), Sub(One, q)), Add(s_n, s_c))),
        Sq(Sub(One, q)))

\* mean_fitness without the homozygote cost (1 - s)
mean_fitness_hom(q, p_s, s_n, s_c) ==
    Add(Add(Sq(q),
            Mul(Mul(Mul(Two, q), Sub(One, q)), Add(Mul(Two, s_n), s_c))),
        Sq(Sub(One, q)))

\* w = q**2 * (1 - s) + 2 * q * (1 - q) * (2*s_n + s_c) + (1 - q)**2
mean_fitness(q, p_s, s_n, s_c) ==
    Add(Add(Mul(Sq(q), Sub(One, p_s)),
            Mul(Mul(Mul(Two, q), Sub(One, q)), Add(Mul(Two, s_n), s_c))),
        Sq(Sub(One, q)))

\* q_next = (q**2 * (1 - s) + 2 * q * (1 - q) * (s_n + s_c)) / w
selected(q, p_s, s_n, s_c, w) ==
    Div(Add(Mul(Sq(q), Sub(One, p_s)),
            Mul(Mul(Mul(Two, q), Sub(One, q)), Add(s_n, s_c))),
        w)

\* the outcome of a call that raised ZeroDivisionError
StepRaised ==
    [raised |-> TRUE, q1_post |-> Zero, q2_post |-> Zero, w1 |-> Zero,
     w2 |-> Zero, q1_next |-> Zero, q2_next |-> Zero]

\* the call: its locals and its result, or the ZeroDivisionError it raises
step_gene_drive(p_q1, p_q2, p_s, p_c, p_h, p_m, p_alpha) ==
    IF den_1(p_m, p_alpha) = Zero \/ den_2(p_m, p_alpha) = Zero
    THEN StepRaised
    ELSE
    LET l_q1_post == post_1(p_q1, p_q2, p_m, p_alpha)
        l_q2_post == post_2(p_q1, p_q2, p_m, p_alpha)
        s_n  == sel_n(p_s, p_c, p_h)
        s_c  == sel_c(p_s, p_c)
        l_w1 == mean_fitness(l_q1_post, p_s, s_n, s_c)
        l_w2 == mean_fitness(l_q2_post, p_s, s_n, s_c)
    IN  IF l_w1 = Zero \/ l_w2 = Zero THEN StepRaised ELSE
        [raised  |-> FALSE,
         q1_post |-> l_q1_post,
         q2_post |-> l_q2_post,
         w1      |-> l_w1,
         w2      |-> l_w2,
         q1_next |-> selected(l_q1_post, p_s, s_n, s_c, l_w1),
         q2_next |-> selected(l_q2_post, p_s, s_n, s_c, l_w2)]

----------------------------------------------------------------------------
(* Inputs of one call of step_gene_drive: the sliders' ranges of           *)
(* src/mousemod.py (s, c, h, q1, q2 in [0,1], m in [0, 0.5]) on a grid of  *)
(* step 1/GridDen, and a few migration asymmetries alpha >= 0.             *)

GridDen == 2

UnitGrid == {Rat(k, GridDen) : k \in 0..GridDen}

MGrid == {Rat(k, 2 * GridDen) : k \in 0..GridDen}

AlphaGrid == {Zero, One, <<3, 1>>, <<4, 1>>}

NoRun ==
    /\ initial_q1 = Zero /\ initial_q2 = Zero
    /\ max_generations = 0 /\ convergence_threshold = Zero
    /\ q1_history = <<>> /\ q2_history = <<>>
    /\ generation = 0 /\ applied = 0

NoLocals ==
    /\ q1_post = Zero /\ q2_post = Zero /\ w1 = Zero /\ w2 = Zero
    /\ q1_next = Zero /\ q2_next = Zero

NoBisect ==
    /\ precision = Zero /\ m_low = Zero /\ m_high = Zero /\ iterations = 0
    /\ result = Zero

NoUI ==
    /\ GENERATION = 0 /\ hist_q1 = <<>> /\ hist_q2 = <<>>
    /\ auto_run = FALSE
    /\ sliders = <<Zero, Zero, Zero, Zero, Zero, Zero>>

InitStep ==
    /\ s \in UnitGrid /\ c \in UnitGrid /\ h \in UnitGrid
    /\ m \in MGrid /\ alpha \in AlphaGrid
    /\ q1 \in UnitGrid /\ q2 \in UnitGrid
    /\ NoRun /\ NoLocals /\ NoBisect /\ NoUI
    /\ pc = "call"

\* the call returns: the locals and the result become visible
StepReturn ==
    /\ pc = "call"
    /\ LET r == step_gene_drive(q1, q2, s, c, h, m, alpha) IN
        /\ ~r.raised
        /\ q1_post' = r.q1_post /\ q2_post' = r.q2_post
        /\ w1' = r.w1 /\ w2' = r.w2
        /\ q1_next' = r.q1_next /\ q2_next' = r.q2_next
    /\ pc' = "returned"
    /\ UNCHANGED ui
    /\ UNCHANGED <<s, c, h, m, alpha, initial_q1, initial_q2, max_generations,
                   convergence_threshold, q1, q2, q1_history, q2_history,
                   generation, applied, precision, m_low, m_high, iterations, result>>

\* a denominator is zero: ZeroDivisionError
StepRaise ==
    /\ pc = "call"
    /\ step_gene_drive(q1, q2, s, c, h, m, alpha).raised
    /\ pc' = "raised"
    /\ UNCHANGED ui
    /\ UNCHANGED <<s, c, h, m, alpha, initial_q1, initial_q2, max_generations,
                   convergence_threshold, q1, q2, q1_history, q2_history,
                   generation, applied, q1_post, q2_post, w1, w2, q1_next,
                   q2_next, precision, m_low, m_high, iterations, result>>

NextStep == StepReturn \/ StepRaise

SpecStep == InitStep /\ [][NextStep]_vars

----------------------------------------------------------------------------
(* run_gene_drive_model (src/simulation.py): the recurrence is written out *)
(* again inside the loop body, with its own local names.                   *)

RecurrenceRaised == [raised |-> TRUE, q1_next |-> Zero, q2_next |-> Zero]

\* the loop body up to the convergence test: the next frequencies, or the
\* ZeroDivisionError a zero denominator raises
recurrence(p_q1, p_q2, p_s, p_c, p_h, p_m, p_alpha) ==
    IF \/ Add(Sub(One, Mul(p_alpha, p_m)), p_m) = Zero
       \/ Add(Sub(One, p_m), Mul(p_alpha, p_m)) = Zero
    THEN RecurrenceRaised
    ELSE
    LET q1_post_migration ==
            Div(Add(Mul(Sub(One, Mul(p_alpha, p_m)), p_q1), Mul(p_m, p_q2)),
                Add(Sub(One, Mul(p_alpha, p_m)), p_m))
        q2_post_migration ==
            Div(Add(Mul(Sub(One, p_m), p_q2), Mul(Mul(p_alpha, p_m), p_q1)),
                Add(Sub(One, p_m), Mul(p_alpha, p_m)))
        s_n == Mul(Mul(Half, Sub(One, p_c)), Sub(One, Mul(p_h, p_s)))
        s_c == Mul(p_c, Sub(One, p_s))
        mean_fitness_1 ==
            Add(Add(Mul(Sq(q1_post_migration), Sub(One, p_s)),
                    Mul(Mul(Mul(Two, q1_post_migration),
                            Sub(One, q1_post_migration)),
                        Add(Mul(Two, s_n), s_c))),
                Sq(Sub(One, q1_post_migration)))
        mean_fitness_2 ==
            Add(Add(Mul(Sq(q2_post_migration), Sub(One, p_s)),
                    Mul(Mul(Mul(Two, q2_post_migration),
                            Sub(One, q2_post_migration)),
                        Add(Mul(Two, s_n), s_c))),
                Sq(Sub(One, q2_post_migration)))
    IN  IF mean_fitness_1 = Zero \/ mean_fitness_2 = Zero
        THEN RecurrenceRaised
        ELSE
        [raised  |-> FALSE,
         q1_next |->
            Div(Add(Mul(Sq(q1_post_migration), Sub(One, p_s)),
                    Mul(Mul(Mul(Two, q1_post_migration),
                            Sub(One, q1_post_migration)),
                        Add(s_n, s_c))),
                mean_fitness_1),
         q2_next |->
            Div(Add(Mul(Sq(q2_post_migration), Sub(One, p_s)),
                    Mul(Mul(Mul(Two, q2_post_migration),
                            Sub(One, q2_post_migration)),
                        Add(s_n, s_c))),
                mean_fitness_2)]

\* the test with `or` for `and`: one converged deme stops the run
converged_either(p_q1_next, p_q1, p_q2_next, p_q2, threshold) ==
    \/ Less(AbsR(Sub(p_q1_next, p_q1)), threshold)
    \/ Less(AbsR(Sub(p_q2_next, p_q2)), threshold)

\* abs(q1_next - q1) < convergence_threshold and
\* abs(q2_next - q2) < convergence_threshold
converged(p_q1_next, p_q1, p_q2_next, p_q2, threshold) ==
    /\ Less(AbsR(Sub(p_q1_next, p_q1)), threshold)
    /\ Less(AbsR(Sub(p_q2_next, p_q2)), threshold)

\* range(max_generations) with one value fewer
more_generations_short(p_generation, p_max_generations) ==
    p_generation < p_max_generations - 1

\* `for generation in range(max_generations)` has a next value
more_generations(p_generation, p_max_generations) ==
    p_generation < p_max_generations

(* Inputs of one call of run_gene_drive_model.  Three generations of the   *)
(* recurrence square the denominators three times: the grid is the one on  *)
(* which every trajectory of MaxGenerations + 1 generations stays within   *)
(* the integers of the checker.                                            *)

MaxGenerations == 2

RunSelectionGrid == {Zero, One}

RunConversionGrid == {Zero, One}

RunDominanceGrid == {Zero, Half, One}

RunMigrationGrid == {Zero, Half}

RunAlphaGrid == {Zero, One, Two, <<3, 1>>}

RunFrequencyGrid == {Zero, Half, One}

RunThresholds == {<<1, 64>>, <<1, 4>>}

InitRun ==
    /\ s \in RunSelectionGrid /\ c \in RunConversionGrid
    /\ h \in RunDominanceGrid
    /\ m \in RunMigrationGrid /\ alpha \in RunAlphaGrid
    /\ initial_q1 \in RunFrequencyGrid /\ initial_q2 \in RunFrequencyGrid
    /\ max_generations \in 0..MaxGenerations
    /\ convergence_threshold \in RunThresholds
    /\ q1 = initial_q1 /\ q2 = initial_q2
    /\ q1_history = <<initial_q1>> /\ q2_history = <<initial_q2>>
    /\ generation = 0 /\ applied = 0
    /\ NoLocals /\ NoBisect /\ NoUI
    /\ pc = "loop"

\* the converging iteration without its two appends
RunConverge_no_append ==
    /\ pc = "loop"
    /\ more_generations(generation, max_generations)
    /\ LET r == recurrence(q1, q2, s, c, h, m, alpha) IN
        /\ ~r.raised
        /\ converged(r.q1_next, q1, r.q2_next, q2, convergence_threshold)
        /\ q1' = r.q1_next /\ q2' = r.q2_next
    /\ applied' = applied + 1
    /\ pc' = "returned"
    /\ UNCHANGED ui
    /\ UNCHANGED <<s, c, h, m, alpha, initial_q1, initial_q2, max_generations,
                   convergence_threshold, q1_history, q2_history, generation,
                   q1_post, q2_post, w1, w2, q1_next, q2_next, precision,
                   m_low, m_high, iterations, result>>

\* an iteration whose next state passes the convergence test: append, break
RunConverge ==
    /\ pc = "loop"
    /\ more_generations(generation, max_generations)
    /\ LET r == recurrence(q1, q2, s, c, h, m, alpha) IN
        /\ ~r.raised
        /\ converged(r.q1_next, q1, r.q2_next, q2, convergence_threshold)
        /\ q1' = r.q1_next /\ q2' = r.q2_next
        /\ q1_history' = Append(q1_history, r.q1_next)
        /\ q2_history' = Append(q2_history, r.q2_next)
    /\ applied' = applied + 1
    /\ pc' = "returned"
    /\ UNCHANGED ui
    /\ UNCHANGED <<s, c, h, m, alpha, initial_q1, initial_q2, max_generations,
                   convergence_threshold, generation, q1_post, q2_post, w1, w2,
                   q1_next, q2_next, precision, m_low, m_high, iterations, result>>

\* an iteration whose next state fails the test: append, next iteration
RunContinue ==
    /\ pc = "loop"
    /\ more_generations(generation, max_generations)
    /\ LET r == recurrence(q1, q2, s, c, h, m, alpha) IN
        /\ ~r.raised
        /\ ~converged(r.q1_next, q1, r.q2_next, q2, convergence_threshold)
        /\ q1' = r.q1_next /\ q2' = r.q2_next
        /\ q1_history' = Append(q1_history, r.q1_next)
        /\ q2_history' = Append(q2_history, r.q2_next)
    /\ applied' = applied + 1
    /\ generation' = generation + 1
    /\ UNCHANGED ui
    /\ UNCHANGED <<s, c, h, m, alpha, initial_q1, initial_q2, max_generations,
                   convergence_threshold, q1_post, q2_post, w1, w2, q1_next,
                   q2_next, precision, m_low, m_high, iterations, result, pc>>

\* an iteration that divides by zero: ZeroDivisionError leaves the function
RunRaise ==
    /\ pc = "loop"
    /\ more_generations(generation, max_generations)
    /\ recurrence(q1, q2, s, c, h, m, alpha).raised
    /\ pc' = "raised"
    /\ UNCHANGED ui
    /\ UNCHANGED <<s, c, h, m, alpha, initial_q1, initial_q2, max_generations,
                   convergence_threshold, q1, q2, q1_history, q2_history,
                   generation, applied, q1_post, q2_post, w1, w2, q1_next,
                   q2_next, precision, m_low, m_high, iterations, result>>

\* the range is exhausted: return q1, q2, q1_history, q2_history
RunExhaust ==
    /\ pc = "loop"
    /\ ~more_generations(generation, max_generations)
    /\ pc' = "returned"
    /\ UNCHANGED ui
    /\ UNCHANGED <<s, c, h, m, alpha, initial_q1, initial_q2, max_generations,
                   convergence_threshold, q1, q2, q1_history, q2_history,
                   generation, applied, q1_post, q2_post, w1, w2, q1_next,
                   q2_next, precision, m_low, m_high, iterations, result>>

NextRun == RunConverge \/ RunContinue \/ RunRaise \/ RunExhaust

SpecRun == InitRun /\ [][NextRun]_vars

----------------------------------------------------------------------------
(* find_critical_migration (src/simulation.py): bisection on m over        *)
(* [0.0, 0.5], one call of run_gene_drive_model per iteration.             *)

\* the loop of run_gene_drive_model from iteration p_generation on, as the
\* caller sees it: the final q1, q2 (the histories are discarded by the
\* caller), or the ZeroDivisionError
RECURSIVE run_loop(_, _, _, _, _, _, _, _, _, _)
run_loop(p_q1, p_q2, p_s, p_c, p_h, p_m, p_alpha, p_generation, p_max_generations, threshold) ==
    IF ~more_generations(p_generation, p_max_generations)
    THEN [raised |-> FALSE, q1 |-> p_q1, q2 |-> p_q2]
    ELSE LET r == recurrence(p_q1, p_q2, p_s, p_c, p_h, p_m, p_alpha) IN
         IF r.raised
         THEN [raised |-> TRUE, q1 |-> p_q1, q2 |-> p_q2]
         ELSE IF converged(r.q1_next, p_q1, r.q2_next, p_q2, threshold)
         THEN [raised |-> FALSE, q1 |-> r.q1_next, q2 |-> r.q2_next]
         ELSE run_loop(r.q1_next, r.q2_next, p_s, p_c, p_h, p_m, p_alpha,
                       p_generation + 1, p_max_generations, threshold)

run_gene_drive_model(p_s, p_c, p_h, p_m, p_alpha, p_initial_q1, p_initial_q2, p_max_generations, threshold) ==
    run_loop(p_initial_q1, p_initial_q2, p_s, p_c, p_h, p_m, p_alpha, 0,
             p_max_generations, threshold)

(* The defaults of run_gene_drive_model, max_generations = 10000 and       *)
(* convergence_threshold = 1e-10, are out of reach of exact arithmetic in  *)
(* the checker's integers: the calls made by the bisection run for         *)
(* DefaultMaxGenerations generations with the threshold 2^-10.             *)

DefaultMaxGenerations == 1

DefaultThreshold == <<1, 1024>>

\* the comparisons reversed: 0 < final_q1 < final_q2 < 1
has_dte_reversed(final_q1, final_q2) ==
    Less(Zero, final_q1) /\ Less(final_q1, final_q2) /\ Less(final_q2, One)

\* the comparisons not strict: 0 <= final_q2 <= final_q1 <= 1
has_dte_not_strict(final_q1, final_q2) ==
    Leq(Zero, final_q2) /\ Leq(final_q2, final_q1) /\ Leq(final_q1, One)

\* has_dte = (0 < final_q2 < final_q1 < 1)
has_dte(final_q1, final_q2) ==
    Less(Zero, final_q2) /\ Less(final_q2, final_q1) /\ Less(final_q1, One)

\* the loop test with >= for >
bisect_more_or_equal(p_m_low, p_m_high, p_precision) ==
    Leq(p_precision, Sub(p_m_high, p_m_low))

\* while m_high - m_low > precision
bisect_more(p_m_low, p_m_high, p_precision) ==
    Less(p_precision, Sub(p_m_high, p_m_low))

\* m_mid = (m_low + m_high) / 2
m_mid(p_m_low, p_m_high) == Div(Add(p_m_low, p_m_high), Two)

\* final_q1, final_q2, _, _ = run_gene_drive_model(s, c, h, m_mid, alpha, ...)
run_at(p_m) ==
    CHOOSE r \in {run_gene_drive_model(s, c, h, v_m, alpha, initial_q1,
                                       initial_q2, DefaultMaxGenerations,
                                       DefaultThreshold) : v_m \in {p_m}} :
        TRUE

(* Inputs of one call of find_critical_migration: precisions 2, 1, 1/2,    *)
(* ..., 2^(1 - MaxPrecisionExp) and 3/10, and the grid on which the calls  *)
(* of run_gene_drive_model stay within the integers of the checker.        *)

MaxPrecisionExp == 5

RECURSIVE Pow2(_)
Pow2(k) == IF k = 0 THEN 1 ELSE 2 * Pow2(k - 1)

PrecisionGrid == {Rat(2, Pow2(k)) : k \in 0..MaxPrecisionExp} \cup {<<3, 10>>}

BisectSelectionGrid == {Zero, One}

BisectConversionGrid == {Zero}

BisectDominanceGrid == {Half, One}

BisectAlphaGrid == {Zero, One, <<3, 1>>, <<5, 1>>}

BisectFrequencyGrid == {Zero, Half, One}

InitBisect ==
    /\ s \in BisectSelectionGrid /\ c \in BisectConversionGrid
    /\ h \in BisectDominanceGrid /\ alpha \in BisectAlphaGrid
    /\ initial_q1 \in BisectFrequencyGrid
    /\ initial_q2 \in BisectFrequencyGrid
    /\ precision \in PrecisionGrid
    /\ m_low = Zero /\ m_high = Half
    /\ iterations = 0 /\ result = Zero
    /\ m = Zero /\ q1 = Zero /\ q2 = Zero
    /\ max_generations = 0 /\ convergence_threshold = Zero
    /\ q1_history = <<>> /\ q2_history = <<>>
    /\ generation = 0 /\ applied = 0
    /\ NoLocals /\ NoUI
    /\ pc = "loop"

\* an iteration whose run shows differential targeting: m_low = m_mid
BisectRaiseLow ==
    /\ pc = "loop"
    /\ bisect_more(m_low, m_high, precision)
    /\ \E r \in {run_at(m_mid(m_low, m_high))} :
        /\ ~r.raised
        /\ has_dte(r.q1, r.q2)
        /\ q1' = r.q1 /\ q2' = r.q2
    /\ m' = m_mid(m_low, m_high)
    /\ m_low' = m_mid(m_low, m_high)
    /\ iterations' = iterations + 1
    /\ UNCHANGED ui
    /\ UNCHANGED <<s, c, h, alpha, initial_q1, initial_q2, max_generations,
                   convergence_threshold, q1_history, q2_history, generation,
                   applied, q1_post, q2_post, w1, w2, q1_next, q2_next,
                   precision, m_high, result, pc>>

\* an iteration whose run shows none: m_high = m_mid
BisectLowerHigh ==
    /\ pc = "loop"
    /\ bisect_more(m_low, m_high, precision)
    /\ \E r \in {run_at(m_mid(m_low, m_high))} :
        /\ ~r.raised
        /\ ~has_dte(r.q1, r.q2)
        /\ q1' = r.q1 /\ q2' = r.q2
    /\ m' = m_mid(m_low, m_high)
    /\ m_high' = m_mid(m_low, m_high)
    /\ iterations' = iterations + 1
    /\ UNCHANGED ui
    /\ UNCHANGED <<s, c, h, alpha, initial_q1, initial_q2, max_generations,
                   convergence_threshold, q1_history, q2_history, generation,
                   applied, q1_post, q2_post, w1, w2, q1_next, q2_next,
                   precision, m_low, result, pc>>

\* the run at m_mid divides by zero: ZeroDivisionError leaves the function
BisectRaise ==
    /\ pc = "loop"
    /\ bisect_more(m_low, m_high, precision)
    /\ run_at(m_mid(m_low, m_high)).raised
    /\ m' = m_mid(m_low, m_high)
    /\ pc' = "raised"
    /\ UNCHANGED ui
    /\ UNCHANGED <<s, c, h, alpha, initial_q1, initial_q2, max_generations,
                   convergence_threshold, q1, q2, q1_history, q2_history,
                   generation, applied, q1_post, q2_post, w1, w2, q1_next,
                   q2_next, precision, m_low, m_high, iterations, result>>

\* the loop test fails: return m_low
BisectReturn ==
    /\ pc = "loop"
    /\ ~bisect_more(m_low, m_high, precision)
    /\ result' = m_low
    /\ pc' = "returned"
    /\ UNCHANGED ui
    /\ UNCHANGED <<s, c, h, m, alpha, initial_q1, initial_q2, max_generations,
                   convergence_threshold, q1, q2, q1_history, q2_history,
                   generation, applied, q1_post, q2_post, w1, w2, q1_next,
                   q2_next, precision, m_low, m_high, iterations>>

NextBisect == BisectRaiseLow \/ BisectLowerHigh \/ BisectRaise \/ BisectReturn

SpecBisect == InitBisect /\ [][NextBisect]_vars

----------------------------------------------------------------------------
(* The main loop of mousemod.py: each frame reads s, c, h, m from the      *)
(* sliders, handles the queued events (Run/Pause click, Reset click,       *)
(* slider drag), then steps the model once if auto_run is set and          *)
(* STEP_DELAY_MS have passed.  The clock is not modelled: whether the      *)
(* delay has passed is a free choice in every frame.  Drawing, the mice    *)
(* and the plot change none of the variables below.                        *)

\* s, c, h = 0.5, 0.8, 0.3; m = 0.05; q1, q2 = 0.7, 0.1: the values at start
\* and after Reset, in the order of the list sliders
DefaultSliders ==
    <<<<1, 2>>, <<4, 5>>, <<3, 10>>, <<1, 20>>, <<7, 10>>, <<1, 10>>>>

\* if len(hist_q1) > 100
HistoryCap == 100

\* the convergence test of the loop: 1e-6
UIThreshold == <<1, 1000000>>

\* the comparison a < b of two floats, a >= 0 and b = 1 / n, without the
\* products a common denominator needs (they are out of the checker's
\* integers for 1e-6): a[1] * n < a[2]
Below(a, b) == a[1] = 0 \/ b[2] <= (a[2] - 1) \div a[1]

\* abs(q1 - q1_next) < 1e-6 and abs(q2 - q2_next) < 1e-6
ui_converged(p_q1, p_q1_next, p_q2, p_q2_next) ==
    /\ Below(AbsR(Sub(p_q1, p_q1_next)), UIThreshold)
    /\ Below(AbsR(Sub(p_q2, p_q2_next)), UIThreshold)

\* the append without the pop
hist_append_no_pop(p_hist_q1, hist, q) == Append(hist, q)

\* hist.append(q); if len(hist_q1) > 100: hist.pop(0), for either history:
\* the test is on the length of hist_q1 after its append
hist_append(p_hist_q1, hist, q) ==
    IF Len(p_hist_q1) + 1 > HistoryCap
    THEN Tail(Append(hist, q))
    ELSE Append(hist, q)

(* Inputs of the session.  The sliders are dragged to the values below,    *)
(* and Run is clicked in frames that read these values.  With h and m at   *)
(* 0 the frequencies stay within the integers of the checker for more than *)
(* HistoryCap generations (with s = 1, c = 0 a frequency a / b steps to    *)
(* a / (a + b)), and the loop commits generations up to MaxCommitted; with *)
(* h or m inside its range the denominators multiply at every step, and    *)
(* the loop commits generations up to MaxInterior.                         *)

MaxCommitted == 102

MaxInterior == 1

SliderGrid == <<{Zero, One}, {Zero}, {Zero, Half}, {Zero, <<1, 6>>}>>

\* the number of generations the loop commits with the parameters read
CommitBound == IF h = Zero /\ m = Zero THEN MaxCommitted ELSE MaxInterior

\* the frame read its parameters on the grid, and the sliders are on it
OnGrid ==
    /\ s \in SliderGrid[1] /\ c \in SliderGrid[2]
    /\ h \in SliderGrid[3] /\ m \in SliderGrid[4]
    /\ \A i \in 1..4 : sliders[i] \in SliderGrid[i]

InitUI ==
    /\ s = DefaultSliders[1] /\ c = DefaultSliders[2]
    /\ h = DefaultSliders[3] /\ m = DefaultSliders[4]
    /\ alpha = One
    /\ q1 = DefaultSliders[5] /\ q2 = DefaultSliders[6]
    /\ GENERATION = 0
    /\ hist_q1 = <<>> /\ hist_q2 = <<>>
    /\ sliders = DefaultSliders
    /\ auto_run = FALSE
    /\ NoRun /\ NoLocals /\ NoBisect
    /\ pc = "frame"

\* the top of a frame: s, c, h, m = sliders[0..3].value
ReadSliders ==
    /\ pc = "frame"
    /\ s' = sliders[1] /\ c' = sliders[2] /\ h' = sliders[3] /\ m' = sliders[4]
    /\ pc' = "events"
    /\ UNCHANGED ui
    /\ UNCHANGED <<alpha, initial_q1, initial_q2, max_generations,
                   convergence_threshold, q1, q2, q1_history, q2_history,
                   generation, applied, q1_post, q2_post, w1, w2, q1_next,
                   q2_next, precision, m_low, m_high, iterations, result>>

\* MOUSEBUTTONDOWN on run_button: auto_run = not auto_run
ClickRun ==
    /\ pc = "events"
    /\ auto_run \/ OnGrid
    /\ auto_run' = ~auto_run
    /\ UNCHANGED <<GENERATION, hist_q1, hist_q2, sliders>>
    /\ UNCHANGED <<s, c, h, m, alpha, initial_q1, initial_q2, max_generations,
                   convergence_threshold, q1, q2, q1_history, q2_history,
                   generation, applied, q1_post, q2_post, w1, w2, q1_next,
                   q2_next, precision, m_low, m_high, iterations, result, pc>>

\* MOUSEBUTTONDOWN on reset_button: parameters, state and sliders back to
\* the defaults, GENERATION = 0, both histories cleared, auto_run = False
ClickReset ==
    /\ pc = "events"
    /\ s' = DefaultSliders[1] /\ c' = DefaultSliders[2]
    /\ h' = DefaultSliders[3] /\ m' = DefaultSliders[4]
    /\ q1' = DefaultSliders[5] /\ q2' = DefaultSliders[6]
    /\ sliders' = DefaultSliders
    /\ GENERATION' = 0
    /\ hist_q1' = <<>> /\ hist_q2' = <<>>
    /\ auto_run' = FALSE
    /\ UNCHANGED <<alpha, initial_q1, initial_q2, max_generations,
                   convergence_threshold, q1_history, q2_history, generation,
                   applied, q1_post, q2_post, w1, w2, q1_next, q2_next,
                   precision, m_low, m_high, iterations, result, pc>>

\* MOUSEMOTION on a slider that is being dragged: its value changes; s, c,
\* h, m keep the values read at the top of the frame.  The sliders of q1
\* and q2 are never read, and their drags are left out.
DragSlider ==
    /\ pc = "events"
    /\ \E i \in 1..4 : \E v \in SliderGrid[i] :
        /\ sliders[i] # v
        /\ sliders' = [sliders EXCEPT ![i] = v]
    /\ UNCHANGED <<GENERATION, hist_q1, hist_q2, auto_run>>
    /\ UNCHANGED <<s, c, h, m, alpha, initial_q1, initial_q2, max_generations,
                   convergence_threshold, q1, q2, q1_history, q2_history,
                   generation, applied, q1_post, q2_post, w1, w2, q1_next,
                   q2_next, precision, m_low, m_high, iterations, result, pc>>

\* the event queue is empty: on to the update
EventsDone ==
    /\ pc = "events"
    /\ pc' = "update"
    /\ UNCHANGED ui
    /\ UNCHANGED <<s, c, h, m, alpha, initial_q1, initial_q2, max_generations,
                   convergence_threshold, q1, q2, q1_history, q2_history,
                   generation, applied, q1_post, q2_post, w1, w2, q1_next,
                   q2_next, precision, m_low, m_high, iterations, result>>

\* auto_run and the delay has passed: one call of step_gene_drive; the
\* ZeroDivisionError ends the program, a result within 1e-6 in both demes
\* clears auto_run, any other result is committed.  The step is taken
\* within CommitBound, and beyond it where the parameters keep the
\* frequencies small.
Tick ==
    /\ pc = "update"
    /\ auto_run
    /\ GENERATION < CommitBound \/ (h = Zero /\ m = Zero)
    /\ \E r \in {step_gene_drive(q1, q2, s, c, h, m, alpha)} :
        IF r.raised
        THEN /\ pc' = "raised"
             /\ UNCHANGED <<q1, q2, q1_next, q2_next, GENERATION, hist_q1,
                            hist_q2, auto_run>>
        ELSE IF ui_converged(q1, r.q1_next, q2, r.q2_next)
        THEN /\ q1_next' = r.q1_next /\ q2_next' = r.q2_next
             /\ auto_run' = FALSE
             /\ pc' = "frame"
             /\ UNCHANGED <<q1, q2, GENERATION, hist_q1, hist_q2>>
        ELSE /\ GENERATION < CommitBound
             /\ q1_next' = r.q1_next /\ q2_next' = r.q2_next
             /\ q1' = r.q1_next /\ q2' = r.q2_next
             /\ GENERATION' = GENERATION + 1
             /\ hist_q1' = hist_append(hist_q1, hist_q1, r.q1_next)
             /\ hist_q2' = hist_append(hist_q1, hist_q2, r.q2_next)
             /\ pc' = "frame"
             /\ UNCHANGED auto_run
    /\ UNCHANGED <<s, c, h, m, alpha, initial_q1, initial_q2, max_generations,
                   convergence_threshold, q1_history, q2_history, generation,
                   applied, q1_post, q2_post, w1, w2, precision, m_low,
                   m_high, iterations, result, sliders>>

\* auto_run is not set or the delay has not passed: no step in this frame
NoTick ==
    /\ pc = "update"
    /\ pc' = "frame"
    /\ UNCHANGED ui
    /\ UNCHANGED <<s, c, h, m, alpha, initial_q1, initial_q2, max_generations,
                   convergence_threshold, q1, q2, q1_history, q2_history,
                   generation, applied, q1_post, q2_post, w1, w2, q1_next,
                   q2_next, precision, m_low, m_high, iterations, result>>

NextUI ==
    \/ ReadSliders \/ ClickRun \/ ClickReset \/ DragSlider \/ EventsDone
    \/ Tick \/ NoTick

SpecUI == InitUI /\ [][NextUI]_vars

----------------------------------------------------------------------------
(* Properties of run_gene_drive_model (SpecRun).                           *)

Last(seq) == seq[Len(seq)]

\* entries i and i+1 of the histories differ by less than the threshold in
\* both demes
BothBelow(i) ==
    /\ Less(AbsR(Sub(q1_history[i + 1], q1_history[i])), convergence_threshold)
    /\ Less(AbsR(Sub(q2_history[i + 1], q2_history[i])), convergence_threshold)

\* ... in exactly one deme
OneBelow(i) ==
    Less(AbsR(Sub(q1_history[i + 1], q1_history[i])), convergence_threshold)
        # Less(AbsR(Sub(q2_history[i + 1], q2_history[i])), convergence_threshold)

Pairs == 1..(Len(q1_history) - 1)

\* C1: at the start of iteration g both histories hold exactly g+1 entries,
\* the last being the current (q1, q2); on return the histories have equal
\* length = applications executed + 1, entry 0 is the initial state, the
\* last entry is the returned state, and the length is at most
\* max_generations + 1.
C1_HistoryShape ==
    /\ Len(q1_history) = Len(q2_history)
    /\ pc = "loop" =>
        /\ Len(q1_history) = generation + 1
        /\ Last(q1_history) = q1 /\ Last(q2_history) = q2
    /\ pc = "returned" =>
        /\ Len(q1_history) = applied + 1
        /\ q1_history[1] = initial_q1 /\ q2_history[1] = initial_q2
        /\ Last(q1_history) = q1 /\ Last(q2_history) = q2
        /\ Len(q1_history) <= max_generations + 1

C1_Witness ==
    /\ pc = "returned" /\ applied = 2 /\ Len(q1_history) = 3
    /\ q1 # initial_q1 /\ q1_history[2] # q1

RunTerminated == pc \in {"returned", "raised"}

\* the budget bounds the applications; in the loop every generation so far
\* applied the recurrence once
C2_Budget ==
    /\ applied <= max_generations /\ generation <= max_generations
    /\ pc = "loop" => applied = generation
    /\ (pc = "returned" /\ \A i \in Pairs : ~BothBelow(i)) =>
        /\ applied = max_generations
        /\ Len(q1_history) = max_generations + 1
        /\ q1 = Last(q1_history) /\ q2 = Last(q2_history)
    /\ pc = "raised" => recurrence(q1, q2, s, c, h, m, alpha).raised

\* a step of the loop either ends the run or moves to the next generation,
\* having applied the recurrence once
C2_Progress ==
    \/ RunTerminated'
    \/ generation' = generation + 1 /\ applied' = applied + 1

\* C2: the run always terminates after at most max_generations
\* applications of the recurrence (every step ends the run or advances the
\* generation, which never exceeds max_generations); if the convergence
\* test is never satisfied it executes exactly
\* max_generations of them and returns the state the last one computed;
\* the only error is a division by zero, never the exhausted budget.
C2_TerminatesWithinBudget == []C2_Budget /\ [][C2_Progress]_vars

C2_Witness ==
    /\ pc = "returned" /\ max_generations = 2 /\ applied = 2
    /\ \A i \in Pairs : ~BothBelow(i)
    /\ q1 # initial_q1

\* C3: a run that stops before the budget is exhausted stops at the first
\* generation whose next state is within the threshold of the current one
\* in both demes; that next state is appended and returned; no earlier
\* consecutive pair of history entries is within the threshold in both
\* demes, so a single converged deme never stops the run.
C3_StopsAtFirstConvergence ==
    /\ \A i \in Pairs :
        BothBelow(i) => (pc = "returned" /\ i + 1 = Len(q1_history))
    /\ (pc = "returned" /\ applied < max_generations) =>
        /\ Len(q1_history) >= 2
        /\ BothBelow(Len(q1_history) - 1)
        /\ q1 = Last(q1_history) /\ q2 = Last(q2_history)

C3_Witness ==
    /\ pc = "returned" /\ Len(q1_history) = 3
    /\ OneBelow(1) /\ BothBelow(2)
    /\ q1 = q1_history[3] /\ q2 = q2_history[3]

\* step_gene_drive applied n times to the initial state
RECURSIVE StepPower(_)
StepPower(n) ==
    IF n = 0
    THEN [raised |-> FALSE, q1 |-> initial_q1, q2 |-> initial_q2]
    ELSE LET before == StepPower(n - 1) IN
         IF before.raised THEN before ELSE
         LET r == step_gene_drive(before.q1, before.q2, s, c, h, m, alpha) IN
         [raised |-> r.raised, q1 |-> r.q1_next, q2 |-> r.q2_next]

\* C4: entry i of the trajectory of run_gene_drive_model is step_gene_drive
\* applied i times to the initial state, for every i up to the generation
\* at which the run stops; the run raises where the next step raises.
C4_RunIsIteratedStep ==
    /\ \A i \in 1..Len(q1_history) :
        StepPower(i - 1) =
            [raised |-> FALSE, q1 |-> q1_history[i], q2 |-> q2_history[i]]
    /\ pc = "raised" => StepPower(Len(q1_history)).raised

C4_Witness ==
    /\ pc = "returned" /\ Len(q1_history) = 3
    /\ q1_history[2] # q1_history[1] /\ q1_history[3] # q1_history[2]
    /\ q2_history[2] # q2_history[1] /\ q2_history[3] # q2_history[2]
    /\ Less(Zero, q1) /\ Less(q1, One)

----------------------------------------------------------------------------
(* Properties of one call of step_gene_drive (SpecStep).                   *)

InUnit(q) == Leq(Zero, q) /\ Leq(q, One)

\* the documented parameter domain: s, c, h in [0,1], m in [0, 0.5], alpha >= 0
ParamsDocumented ==
    /\ InUnit(s) /\ InUnit(c) /\ InUnit(h)
    /\ Leq(Zero, m) /\ Leq(m, Half)
    /\ Leq(Zero, alpha)

\* q + c * q * (1 - q): what selection leaves of q when s = 0
Converted(q) == Add(q, Mul(Mul(c, q), Sub(One, q)))

\* C8 as stated: for s = 0 the mean fitness of each deme is exactly 1 and
\* the selection phase is a no-op, q_next = q_post in both demes.
C8_SelectionNoOp ==
    (pc = "returned" /\ s = Zero) =>
        /\ w1 = One /\ w2 = One
        /\ q1_next = q1_post /\ q2_next = q2_post

\* C8 amended: for s = 0 the mean fitness of each deme is exactly 1 and
\* q_next = q_post + c * q_post * (1 - q_post) in both demes, so that
\* q_next = q_post exactly when c = 0 or q_post is 0 or 1.
C8_NeutralSelection ==
    (pc = "returned" /\ s = Zero) =>
        /\ w1 = One /\ w2 = One
        /\ q1_next = Converted(q1_post) /\ q2_next = Converted(q2_post)
        /\ (q1_next = q1_post) <=> (c = Zero \/ q1_post \in {Zero, One})
        /\ (q2_next = q2_post) <=> (c = Zero \/ q2_post \in {Zero, One})

C8_Witness ==
    /\ pc = "returned" /\ s = Zero /\ c = Half /\ InUnit(q1_post)
    /\ w1 = One /\ q1_next # q1_post

\* both migration denominators are non-zero ("valid m and alpha")
MigrationDefined == den_1(m, alpha) # Zero /\ den_2(m, alpha) # Zero

\* C9 as stated: step applied to (1, 1) with c = 1 yields (1, 1) for every
\* s and h in [0,1] and every valid m and alpha.
C9_FixedStaysFixed ==
    (pc # "call" /\ q1 = One /\ q2 = One /\ c = One /\ MigrationDefined) =>
        (pc = "returned" /\ q1_next = One /\ q2_next = One)

\* C9 amended: step applied to (1, 1) with c = 1 yields (1, 1) for every
\* s in [0,1), every h and every valid m and alpha; at s = 1 the mean
\* fitness is 0 and the call raises ZeroDivisionError.
C9_FixedStaysFixedBelowOne ==
    (pc # "call" /\ q1 = One /\ q2 = One /\ c = One /\ MigrationDefined) =>
        IF s = One
        THEN pc = "raised"
        ELSE pc = "returned" /\ q1_next = One /\ q2_next = One

C9_Witness ==
    /\ pc = "returned" /\ q1 = One /\ q2 = One /\ c = One
    /\ s = Half /\ m = Half /\ q1_next = One /\ q2_next = One

\* C10 as stated: from q1, q2 in [0,1] and parameters in the documented
\* domain with all denominators non-zero, one step returns q1_next and
\* q2_next in [0,1].
C10_StaysInUnit ==
    (pc = "returned" /\ InUnit(q1) /\ InUnit(q2) /\ ParamsDocumented) =>
        (InUnit(q1_next) /\ InUnit(q2_next))

\* C10 amended: the same, provided also alpha * m <= 1 (the migration
\* weights 1 - alpha*m and m are then non-negative).
C10_StaysInUnitConvex ==
    (/\ pc = "returned" /\ InUnit(q1) /\ InUnit(q2) /\ ParamsDocumented
     /\ Leq(Mul(alpha, m), One)) =>
        (InUnit(q1_next) /\ InUnit(q2_next))

C10_Witness ==
    /\ pc = "returned" /\ alpha = <<3, 1>> /\ m = <<1, 4>>
    /\ q1 = One /\ q2 = Zero /\ s = Half /\ c = Half
    /\ Less(Zero, q1_next) /\ Less(q1_next, One)
    /\ Less(Zero, q2_next) /\ Less(q2_next, One)

----------------------------------------------------------------------------
(* Properties of find_critical_migration (SpecBisect).                     *)

\* 2^k >= r for an integer k of either sign and a rational r > 0
Pow2Geq(k, r) ==
    IF k >= 0 THEN Pow2(k) * r[2] >= r[1] ELSE r[2] >= r[1] * Pow2(-k)

\* ceil(log2(r)) for the rationals r > 0 of the precision grid
CeilLog2(r) ==
    CHOOSE k \in -(MaxPrecisionExp + 2)..(MaxPrecisionExp + 2) :
        Pow2Geq(k, r) /\ ~Pow2Geq(k - 1, r)

\* ceil(log2(0.5 / precision))
LogBound == CeilLog2(Div(Half, precision))

\* the number of halvings that bring 0.5 to precision or below
Halvings == IF LogBound > 0 THEN LogBound ELSE 0

\* the width of the bracket, m_high - m_low
Width == Sub(m_high, m_low)

\* C5 (as stated): find_critical_migration returns within
\* ceil(log2(0.5/precision)) bisection iterations, for any precision > 0.
C5_WithinLogBound == (pc = "returned") => iterations <= LogBound

C5_Bracket ==
    /\ iterations <= Halvings
    /\ Width = <<1, 2 * Pow2(iterations)>>
    /\ (pc = "returned") =>
         /\ iterations = Halvings
         /\ Leq(Width, precision)
         /\ result = m_low
         /\ (iterations > 0 => Less(precision, Mul(Two, Width)))

C5_Iteration ==
    \/ /\ pc = "loop" /\ pc' = "loop"
       /\ Less(precision, Width)
       /\ iterations' = iterations + 1
       /\ \/ m_low' = Div(Add(m_low, m_high), Two) /\ m_high' = m_high
          \/ m_high' = Div(Add(m_low, m_high), Two) /\ m_low' = m_low
       /\ Sub(m_high', m_low') = Div(Width, Two)
    \/ /\ pc = "loop" /\ pc' = "returned"
       /\ Leq(Width, precision)
       /\ result' = m_low
       /\ UNCHANGED <<m_low, m_high, iterations>>
    \/ /\ pc = "loop" /\ pc' = "raised"
       /\ Less(precision, Width)
       /\ UNCHANGED <<m_low, m_high, iterations>>

\* C5 (amended): the bisection makes at most max(0, ceil(log2(0.5/precision)))
\* iterations, and exactly that many when it returns; each iteration replaces
\* exactly one of m_low, m_high by their midpoint, halving m_high - m_low,
\* which is 0.5 / 2^iterations throughout; the loop exits as soon as
\* m_high - m_low <= precision and returns m_low; the only other exit is the
\* ZeroDivisionError of a run.
C5_BisectionHalves == []C5_Bracket /\ [][C5_Iteration]_vars

\* a call that returned after two iterations, its bound being two
C5_Witness ==
    /\ pc = "returned" /\ iterations = 2 /\ LogBound = 2
    /\ Width = <<1, 8>> /\ result = m_low

\* differential targeting after a run at migration rate p_m:
\* 0 < q2_final < q1_final < 1
Targeting(p_m) ==
    \E r \in {run_at(p_m)} :
        /\ ~r.raised
        /\ Less(Zero, r.q2) /\ Less(r.q2, r.q1) /\ Less(r.q1, One)

C7_BracketInvariant ==
    (pc = "loop" /\ Less(precision, Width)) =>
        /\ m_low = Zero \/ Targeting(m_low)
        /\ ~Targeting(m_high)

\* C7 (amended): at every iteration differential targeting holds at m_low
\* (or m_low is still the initial 0.0) and does not hold at m_high (or m_high
\* is still the initial 0.5, which no run has tested).
C7_TestedBracketInvariant ==
    (pc = "loop") =>
        /\ Less(m_low, m_high)
        /\ m_low = Zero \/ Targeting(m_low)
        /\ m_high = Half \/ ~Targeting(m_high)

\* an iteration with both ends of the bracket set by earlier iterations
C7_Witness ==
    /\ pc = "loop" /\ iterations >= 2 /\ Less(precision, Width)
    /\ m_low # Zero /\ Targeting(m_low)
    /\ m_high # Half /\ ~Targeting(m_high)

----------------------------------------------------------------------------
(* Properties of the main loop of mousemod.py (SpecUI).                    *)

Min(a, b) == IF a < b THEN a ELSE b

\* the history hist after one more point q, at most HistoryCap long
Plotted(hist, q) ==
    IF Len(hist) < HistoryCap THEN Append(hist, q) ELSE Append(Tail(hist), q)

\* the result of the step of this frame is within 1e-6 of the current state
\* in both demes
WithinUIThreshold ==
    \E r \in {step_gene_drive(q1, q2, s, c, h, m, alpha)} :
        /\ ~r.raised
        /\ Below(AbsR(Sub(q1, r.q1_next)), UIThreshold)
        /\ Below(AbsR(Sub(q2, r.q2_next)), UIThreshold)

C11_Lengths ==
    /\ Len(hist_q1) = Len(hist_q2)
    /\ Len(hist_q1) = Min(GENERATION, HistoryCap)

\* a step of the update phase: a committed step, a converged step, a frame
\* without a step, or the ZeroDivisionError
C11_Update ==
    (pc = "update") =>
        \/ /\ GENERATION' = GENERATION + 1
           /\ auto_run /\ auto_run'
           /\ q1' = q1_next' /\ q2' = q2_next'
           /\ hist_q1' = Plotted(hist_q1, q1')
           /\ hist_q2' = Plotted(hist_q2, q2')
           /\ ~WithinUIThreshold
        \/ /\ auto_run /\ ~auto_run'
           /\ UNCHANGED <<q1, q2, GENERATION, hist_q1, hist_q2>>
           /\ WithinUIThreshold
        \/ UNCHANGED <<q1, q2, GENERATION, hist_q1, hist_q2, auto_run>>

\* an event: Reset, or an event that leaves the simulation state alone
C11_Event ==
    (pc = "events") =>
        \/ /\ GENERATION' = 0 /\ hist_q1' = <<>> /\ hist_q2' = <<>>
           /\ ~auto_run'
        \/ UNCHANGED <<q1, q2, GENERATION, hist_q1, hist_q2>>

\* only Tick clears auto_run without a click, and only on a converged step
C11_Frame ==
    (pc = "frame") =>
        UNCHANGED <<q1, q2, GENERATION, hist_q1, hist_q2, auto_run>>

\* C11: in the main loop of mousemod.py, after any sequence of Run/Pause
\* clicks, Reset clicks and ticks, len(hist_q1) = len(hist_q2) =
\* min(GENERATION, 100); a tick that commits a step adds one to GENERATION
\* and appends one point to each history, dropping the oldest beyond 100; a
\* tick whose result is within 1e-6 of the state in both demes only clears
\* auto_run and leaves q1, q2, GENERATION and the histories unchanged; Reset
\* sets GENERATION to 0, empties the histories and clears auto_run.
C11_HistoryTracksGeneration ==
    []C11_Lengths /\ [][C11_Update /\ C11_Event /\ C11_Frame]_vars

\* a session past generation 100: the oldest points dropped, the histories
\* 100 long and ending at the current state
C11_Witness ==
    /\ GENERATION = HistoryCap + 1
    /\ Len(hist_q1) = HistoryCap /\ Len(hist_q2) = HistoryCap
    /\ hist_q1[1] = <<7, 24>> /\ hist_q2[1] = <<1, 12>>
    /\ hist_q1[HistoryCap] = q1 /\ hist_q2[HistoryCap] = q2

============================================================================
